---- MODULE Spec2Model ----
(***************************************************************************)
(* rlox_treewalk: scanner, recursive-descent parser, tree-walking          *)
(* interpreter and the command-line driver, as a state machine.            *)
(*                                                                         *)
(* A source text is a sequence of characters; a character is a one-element *)
(* string, except the two-byte character U+00E9, written "U+E9".           *)
(***************************************************************************)
EXTENDS Integers, Sequences, FiniteSets, TLC

VARIABLES
  pc,        \* where the driver is: the position inside run / run_prompt
  scanner,   \* the Scanner object: source, tokens, start, current, line, has_error
  scanned,   \* what the last scan_tokens call returned
  parser,    \* the Parser object: tokens, current
  frames,    \* the parser's call stack (one frame per active parsing method)
  ret,       \* the value the parsing method that returned last gave its caller
  value,     \* what Interpreter::visit_expression returned for the parsed tree
  stdout,    \* what was written to standard output, in order
  stderr,    \* what was written to standard error, in order
  nread,     \* how many source units the driver has read
  ncalls,    \* how many times scan_tokens was called on the Scanner
  mode,      \* who called run: "prompt" (run_prompt), "file" (run_file), "call"
  result     \* what run returned last

vars == <<pc, scanner, scanned, parser, frames, ret, value, stdout, stderr, nread, ncalls, mode, result>>

(***************************************************************************)
(* Bounds of the model.                                                    *)
(***************************************************************************)
MaxSrcLen == 3    \* longest source text of the exhaustive scanner inputs
MaxCalls == 2     \* scan_tokens calls made on one Scanner
MaxLines == 2     \* lines read by the interactive loop
MaxChain == 2     \* operators in a generated chain  a op b op c ...
MaxUnary == 2     \* prefix operators in a generated unary chain
MaxWrap == 1      \* nodes put around a Binary node of the hand-built trees
MaxFracDigits == 17  \* digits printed after the decimal point

(***************************************************************************)
(* Characters.                                                             *)
(***************************************************************************)
NUL == "NUL"          \* '\0', what peek / peek_next give at the end
NoChar == "None"      \* chars().nth(i) past the last character
PanicChar == "PANIC"  \* unwrap() of None inside peek / peek_next
EAcute == "U+E9"      \* a character of two bytes in UTF-8
Quote == "\""
Newline == "\n"

DigitChars == <<"0", "1", "2", "3", "4", "5", "6", "7", "8", "9">>
Digits == {DigitChars[i] : i \in 1..10}
LowerChars == {"a", "b", "c", "d", "e", "f", "g", "h", "i", "j", "k", "l", "m",
               "n", "o", "p", "q", "r", "s", "t", "u", "v", "w", "x", "y", "z"}
UpperChars == {"A", "B", "C", "D", "E", "F", "G", "H", "I", "J", "K", "L", "M",
               "N", "O", "P", "Q", "R", "S", "T", "U", "V", "W", "X", "Y", "Z"}

\* char::len_utf8
Utf8Len(c) == IF c = EAcute THEN 2 ELSE 1

RECURSIVE SourceLen(_)
\* str::len: the length in bytes
SourceLen(src) == IF src = <<>> THEN 0 ELSE Utf8Len(Head(src)) + SourceLen(Tail(src))

\* str::chars().nth(n)
CharsNth(src, n) == IF n < Len(src) THEN src[n + 1] ELSE NoChar

\* the byte offset at which character number i (from 0) starts
ByteStart(src, i) == SourceLen(SubSeq(src, 1, i))

\* str::is_char_boundary
IsCharBoundary(src, b) == \E i \in 0..Len(src) : ByteStart(src, i) = b

\* &source[a..b]: the characters between two byte offsets, or a panic when the
\* range is reversed, out of bounds or cuts a character
Slice(src, a, b) ==
  IF a <= b /\ IsCharBoundary(src, a) /\ IsCharBoundary(src, b)
  THEN LET i == CHOOSE i \in 0..Len(src) : ByteStart(src, i) = a
           j == CHOOSE j \in 0..Len(src) : ByteStart(src, j) = b
       IN [panic |-> FALSE, text |-> SubSeq(src, i + 1, j)]
  ELSE [panic |-> TRUE, text |-> <<>>]

is_digit(c) == c \in Digits
is_alpha(c) == c \in LowerChars \/ c \in UpperChars \/ c = "_"
is_alpha_numeric(c) == is_alpha(c) \/ is_digit(c)

DigitVal(c) == (CHOOSE i \in 1..10 : DigitChars[i] = c) - 1

(***************************************************************************)
(* f64.  A value is sign, numerator, denominator: den = 0 with num = 1 is  *)
(* an infinity, num = den = 0 is NaN, num = 0 with den = 1 is a (signed)   *)
(* zero.  Finite values are exact rationals, which is what IEEE-754 gives  *)
(* for the values of this model: small integers and their dyadic           *)
(* quotients.                                                              *)
(***************************************************************************)
RECURSIVE GCD(_, _)
GCD(a, b) == IF b = 0 THEN a ELSE GCD(b, a % b)

F64NaN == [neg |-> FALSE, num |-> 0, den |-> 0]
F64(neg, n, d) ==
  IF n = 0 /\ d = 0 THEN F64NaN
  ELSE IF d = 0 THEN [neg |-> neg, num |-> 1, den |-> 0]
  ELSE IF n = 0 THEN [neg |-> neg, num |-> 0, den |-> 1]
  ELSE LET g == GCD(n, d) IN [neg |-> neg, num |-> n \div g, den |-> d \div g]
F64Int(i) == IF i < 0 THEN F64(TRUE, -i, 1) ELSE F64(FALSE, i, 1)

IsNaN(x) == x.num = 0 /\ x.den = 0
IsInf(x) == x.num = 1 /\ x.den = 0
Signed(x) == IF x.neg THEN -x.num ELSE x.num
Abs(i) == IF i < 0 THEN -i ELSE i

\* unary minus
F64Neg(x) == IF IsNaN(x) THEN x ELSE [x EXCEPT !.neg = ~x.neg]

F64Add(a, b) ==
  IF IsNaN(a) \/ IsNaN(b) THEN F64NaN
  ELSE IF IsInf(a) /\ IsInf(b) THEN (IF a.neg = b.neg THEN a ELSE F64NaN)
  ELSE IF IsInf(a) THEN a
  ELSE IF IsInf(b) THEN b
  ELSE LET s == Signed(a) * b.den + Signed(b) * a.den
       IN IF s = 0 THEN F64(a.neg /\ b.neg, 0, 1)
          ELSE F64(s < 0, Abs(s), a.den * b.den)
F64Sub(a, b) == F64Add(a, F64Neg(b))
F64Mul(a, b) == F64(a.neg # b.neg, a.num * b.num, a.den * b.den)
F64Div(a, b) == F64(a.neg # b.neg, a.num * b.den, a.den * b.num)

\* -1, 0, 1 for two values neither of which is NaN
F64Cmp(a, b) ==
  IF IsInf(a) \/ IsInf(b)
  THEN LET ra == IF IsInf(a) THEN (IF a.neg THEN -1 ELSE 1) ELSE 0
           rb == IF IsInf(b) THEN (IF b.neg THEN -1 ELSE 1) ELSE 0
       IN IF ra < rb THEN -1 ELSE IF ra > rb THEN 1 ELSE 0
  ELSE LET l == Signed(a) * b.den
           r == Signed(b) * a.den
       IN IF l < r THEN -1 ELSE IF l > r THEN 1 ELSE 0
Ordered(a, b) == ~IsNaN(a) /\ ~IsNaN(b)
F64Lt(a, b) == Ordered(a, b) /\ F64Cmp(a, b) < 0
F64Le(a, b) == Ordered(a, b) /\ F64Cmp(a, b) <= 0
F64Gt(a, b) == Ordered(a, b) /\ F64Cmp(a, b) > 0
F64Ge(a, b) == Ordered(a, b) /\ F64Cmp(a, b) >= 0
F64Eq(a, b) == Ordered(a, b) /\ F64Cmp(a, b) = 0
F64Ne(a, b) == ~F64Eq(a, b)

RECURSIVE Pow10(_)
Pow10(k) == IF k = 0 THEN 1 ELSE 10 * Pow10(k - 1)

RECURSIVE DigitsVal(_)
\* the number a run of digits writes
DigitsVal(ds) ==
  IF ds = <<>> THEN 0 ELSE 10 * DigitsVal(SubSeq(ds, 1, Len(ds) - 1)) + DigitVal(ds[Len(ds)])

AllDigits(ds) == \A i \in 1..Len(ds) : is_digit(ds[i])

\* str::parse::<f64> for the texts a number lexeme can be: an optional sign, digits
\* with an optional '.', at least one digit.  Anything else is an Err.
ParseF64(text) ==
  LET signed == text # <<>> /\ Head(text) \in {"+", "-"}
      neg == signed /\ Head(text) = "-"
      body == IF signed THEN Tail(text) ELSE text
      dots == {i \in 1..Len(body) : body[i] = "."}
      whole == IF dots = {} THEN body
               ELSE SubSeq(body, 1, (CHOOSE i \in dots : TRUE) - 1)
      frac == IF dots = {} THEN <<>>
              ELSE SubSeq(body, (CHOOSE i \in dots : TRUE) + 1, Len(body))
      ok == /\ Cardinality(dots) <= 1
            /\ AllDigits(whole) /\ AllDigits(frac)
            /\ Len(whole) + Len(frac) >= 1
  IN IF ok
     THEN [ok |-> TRUE,
           number |-> F64(neg, DigitsVal(whole) * Pow10(Len(frac)) + DigitsVal(frac),
                          Pow10(Len(frac)))]
     ELSE [ok |-> FALSE, number |-> F64NaN]

(***************************************************************************)
(* Tokens.  A token type is a record with a tag and, for Number and        *)
(* StringLiteral, the value it carries.                                    *)
(***************************************************************************)
TT(tag) == [tag |-> tag]
NumberTT(n) == [tag |-> "Number", number |-> n]
StringTT(chars) == [tag |-> "StringLiteral", literal |-> chars]
Token(tt, lexeme, line) == [token_type |-> tt, lexeme |-> lexeme, line |-> line]

\* Result and Option values
Ok(v) == [tag |-> "Ok", val |-> v]
Err(m) == [tag |-> "Err", message |-> m]
None == [tag |-> "None"]
Some(v) == [tag |-> "Some", val |-> v]

\* the keyword table of Scanner::identifier
Keywords ==
  { <<<<"a", "n", "d">>, "And">>, <<<<"c", "l", "a", "s", "s">>, "Class">>,
    <<<<"e", "l", "s", "e">>, "Else">>, <<<<"f", "a", "l", "s", "e">>, "False">>,
    <<<<"f", "o", "r">>, "For">>, <<<<"f", "u", "n">>, "Fun">>,
    <<<<"i", "f">>, "If">>, <<<<"n", "i", "l">>, "Nil">>, <<<<"o", "r">>, "Or">>,
    <<<<"p", "r", "i", "n", "t">>, "Print">>,
    <<<<"r", "e", "t", "u", "r", "n">>, "Return">>,
    <<<<"s", "u", "p", "e", "r">>, "Super">>, <<<<"t", "h", "i", "s">>, "This">>,
    <<<<"t", "r", "u", "e">>, "True">>, <<<<"v", "a", "r">>, "Var">>,
    <<<<"w", "h", "i", "l", "e">>, "While">> }

(***************************************************************************)
(* Scanner.  The methods work on a record m: the Scanner's fields, panic   *)
(* (a method panicked: the thread unwinds and nothing more runs) and       *)
(* report (the lines the method wrote to standard error).                  *)
(***************************************************************************)
\* Scanner::new
NewScanner(source) ==
  [source |-> source, tokens |-> <<>>, start |-> 0, current |-> 0, line |-> 1,
   has_error |-> FALSE, panic |-> FALSE, report |-> <<>>]

\* main.rs report, called by error with an empty location
ReportLine(line, at, message) ==
  "[line " \o ToString(line) \o "] Error " \o at \o ": " \o message \o "\n"

\* main.rs error
error(m, message) == [m EXCEPT !.report = Append(@, ReportLine(m.line, "", message))]

Panicked(m) == [m EXCEPT !.panic = TRUE]

\* Scanner::is_at_end: current against the length in bytes
is_at_end(m) == m.current >= SourceLen(m.source)

\* Scanner::advance: chars().nth(current).unwrap(), then current += 1
advance(m) ==
  LET c == CharsNth(m.source, m.current)
  IN IF m.panic \/ c = NoChar
     THEN [m |-> Panicked(m), c |-> PanicChar]
     ELSE [m |-> [m EXCEPT !.current = @ + 1], c |-> c]

\* Scanner::peek
peek(m) ==
  IF is_at_end(m) THEN NUL
  ELSE IF CharsNth(m.source, m.current) = NoChar THEN PanicChar
  ELSE CharsNth(m.source, m.current)

\* Scanner::peek_next
peek_next(m) ==
  IF m.current + 1 >= SourceLen(m.source) THEN NUL
  ELSE IF CharsNth(m.source, m.current + 1) = NoChar THEN PanicChar
  ELSE CharsNth(m.source, m.current + 1)

\* Scanner::matching
matching(m, expected) ==
  IF is_at_end(m) \/ CharsNth(m.source, m.current) # expected
  THEN [m |-> m, b |-> FALSE]
  ELSE [m |-> [m EXCEPT !.current = @ + 1], b |-> TRUE]

\* Scanner::add_token: the lexeme is source[start..current]
add_token(m, tt) ==
  LET text == Slice(m.source, m.start, m.current)
  IN IF m.panic \/ text.panic THEN Panicked(m)
     ELSE [m EXCEPT !.tokens = Append(@, Token(tt, text.text, m.line))]

RECURSIVE SkipComment(_)
\* scan_token, the loop of the comment arm
SkipComment(m) ==
  IF m.panic \/ peek(m) = PanicChar THEN Panicked(m)
  ELSE IF peek(m) # Newline /\ ~is_at_end(m) THEN SkipComment(advance(m).m)
  ELSE m

RECURSIVE SkipDigits(_)
\* the loops of Scanner::number
SkipDigits(m) ==
  IF m.panic \/ peek(m) = PanicChar THEN Panicked(m)
  ELSE IF is_digit(peek(m)) THEN SkipDigits(advance(m).m)
  ELSE m

RECURSIVE SkipAlphaNumeric(_)
\* the loop of Scanner::identifier
SkipAlphaNumeric(m) ==
  IF m.panic \/ peek(m) = PanicChar THEN Panicked(m)
  ELSE IF is_alpha_numeric(peek(m)) THEN SkipAlphaNumeric(advance(m).m)
  ELSE m

RECURSIVE SkipString(_)
\* the loop of Scanner::string
SkipString(m) ==
  IF m.panic \/ peek(m) = PanicChar THEN Panicked(m)
  ELSE IF peek(m) # Quote /\ ~is_at_end(m)
  THEN SkipString(advance(IF peek(m) = Newline THEN [m EXCEPT !.line = @ + 1] ELSE m).m)
  ELSE m

\* Scanner::identifier
identifier(m) ==
  LET m1 == SkipAlphaNumeric(m)
      text == Slice(m1.source, m1.start, m1.current)
  IN IF m1.panic \/ text.panic THEN Panicked(m1)
     ELSE IF \E k \in Keywords : k[1] = text.text
     THEN add_token(m1, TT((CHOOSE k \in Keywords : k[1] = text.text)[2]))
     ELSE add_token(m1, TT("Identifier"))

\* Scanner::number
number(m) ==
  LET m1 == SkipDigits(m)
      frac == ~m1.panic /\ peek(m1) = "." /\ is_digit(peek_next(m1))
      m2 == IF m1.panic \/ peek(m1) = PanicChar
               \/ (peek(m1) = "." /\ peek_next(m1) = PanicChar)
            THEN Panicked(m1)
            ELSE IF frac THEN SkipDigits(advance(m1).m) ELSE m1
      text == Slice(m2.source, m2.start, m2.current)
      parsed == ParseF64(text.text)
  IN IF m2.panic \/ text.panic \/ ~parsed.ok THEN Panicked(m2)
     ELSE add_token(m2, NumberTT(parsed.number))

\* Scanner::string
string(m) ==
  LET m1 == SkipString(m)
      m2 == advance(m1).m
      lit == Slice(m2.source, m2.start + 1, m2.current - 1)
  IN IF m1.panic THEN m1
     ELSE IF is_at_end(m1)
     THEN [error(m1, "Unterminated string.") EXCEPT !.has_error = TRUE]
     ELSE IF m2.panic \/ lit.panic THEN Panicked(m2)
     ELSE add_token(m2, StringTT(lit.text))

\* the arms of scan_token that choose between a one- and a two-character operator
OneOrTwo(m, second, two, one) ==
  LET r == matching(m, second)
  IN IF r.b THEN add_token(r.m, TT(two)) ELSE add_token(r.m, TT(one))

SingleCharTokens ==
  { <<"(", "LeftParen">>, <<")", "RightParen">>, <<"{", "LeftBrace">>,
    <<"}", "RightBrace">>, <<",", "Comma">>, <<".", "Dot">>, <<"-", "Minus">>,
    <<"+", "Plus">>, <<";", "Semicolon">>, <<"*", "Star">> }

\* Scanner::scan_token
scan_token(m) ==
  LET a == advance(m)
      c == a.c
      m1 == a.m
  IN IF m1.panic THEN m1
     ELSE IF \E p \in SingleCharTokens : p[1] = c
     THEN add_token(m1, TT((CHOOSE p \in SingleCharTokens : p[1] = c)[2]))
     ELSE IF c = "!" THEN OneOrTwo(m1, "=", "BangEqual", "Bang")
     ELSE IF c = "=" THEN OneOrTwo(m1, "=", "EqualEqual", "Equal")
     ELSE IF c = "<" THEN OneOrTwo(m1, "=", "LessEqual", "Less")
     ELSE IF c = ">" THEN OneOrTwo(m1, "=", "GreaterEqual", "Greater")
     ELSE IF c = "/"
     THEN LET r == matching(m1, "/")
          IN IF r.b THEN SkipComment(r.m) ELSE add_token(r.m, TT("Slash"))
     ELSE IF c \in {" ", "\r", "\t"} THEN m1
     ELSE IF c = Newline THEN [m1 EXCEPT !.line = @ + 1]
     ELSE IF c = Quote THEN string(m1)
     ELSE IF is_digit(c) THEN number(m1)
     ELSE IF is_alpha(c) THEN identifier(m1)
     ELSE [error(m1, "Unexpected character.") EXCEPT !.has_error = TRUE]

\* scan_tokens whose loop goes on after an error
ScanLoopCond_IgnoresError(m) == ~is_at_end(m)

\* the condition of the while loop of scan_tokens
ScanLoopCond(m) == ~is_at_end(m) /\ ~m.has_error

\* one turn of the loop of scan_tokens
ScanLoopBody(m) == scan_token([m EXCEPT !.start = m.current])

\* scan_tokens once its loop has ended: Err, or Ok with Eof pushed
ScanTokensEnd(m) ==
  IF m.has_error
  THEN [m |-> m, result |-> Err("error while scanning")]
  ELSE LET m1 == [m EXCEPT !.tokens = Append(@, Token(TT("Eof"), <<>>, m.line))]
       IN [m |-> m1, result |-> Ok(m1.tokens)]

(***************************************************************************)
(* Expressions (ast.rs).                                                   *)
(***************************************************************************)
Literal(t) == [kind |-> "Literal", token |-> t]
Grouping(e) == [kind |-> "Grouping", expr |-> e]
Unary(op, r) == [kind |-> "Unary", operator |-> op, r_expr |-> r]
Binary(l, op, r) == [kind |-> "Binary", l_expr |-> l, operator |-> op, r_expr |-> r]


(***************************************************************************)
(* Debug and Display renderings.                                           *)
(***************************************************************************)
RECURSIVE Str(_)
\* the characters of a text as one string
Str(chars) == IF chars = <<>> THEN "" ELSE Head(chars) \o Str(Tail(chars))

\* char::escape_debug inside a string
EscapeDebug(c) ==
  IF c = Quote THEN "\\\"" ELSE IF c = Newline THEN "\\n" ELSE IF c = "\t" THEN "\\t"
  ELSE IF c = "\r" THEN "\\r" ELSE IF c = "\\" THEN "\\\\" ELSE c

RECURSIVE EscapedStr(_)
EscapedStr(chars) ==
  IF chars = <<>> THEN "" ELSE EscapeDebug(Head(chars)) \o EscapedStr(Tail(chars))

\* <str as Debug>::fmt
StrDebug(chars) == "\"" \o EscapedStr(chars) \o "\""

RECURSIVE FracDigits(_, _, _)
\* the decimal digits of r / d, 0 <= r < d: all of them when the fraction terminates
\* (every dyadic one does), the first k otherwise
FracDigits(r, d, k) ==
  IF r = 0 \/ k = 0 THEN ""
  ELSE ToString((r * 10) \div d) \o FracDigits((r * 10) % d, d, k - 1)

\* <f64 as Display>::fmt: no exponent, no trailing ".0"
F64Display(x) ==
  IF IsNaN(x) THEN "NaN"
  ELSE IF IsInf(x) THEN (IF x.neg THEN "-inf" ELSE "inf")
  ELSE (IF x.neg THEN "-" ELSE "") \o ToString(x.num \div x.den)
       \o (IF x.num % x.den = 0 THEN "" ELSE "." \o FracDigits(x.num % x.den, x.den, MaxFracDigits))

\* <f64 as Debug>::fmt: as Display, with ".0" after a whole number
F64Debug(x) ==
  IF IsNaN(x) \/ IsInf(x) \/ x.num % x.den # 0 THEN F64Display(x)
  ELSE F64Display(x) \o ".0"

\* #[derive(Debug)] of TokenType
TokenTypeDebug(tt) ==
  IF tt.tag = "Number" THEN "Number { number: " \o F64Debug(tt.number) \o " }"
  ELSE IF tt.tag = "StringLiteral"
  THEN "StringLiteral { literal: " \o StrDebug(tt.literal) \o " }"
  ELSE tt.tag

\* #[derive(Debug)] of Token
TokenDebug(t) ==
  "Token { token_type: " \o TokenTypeDebug(t.token_type) \o ", lexeme: "
  \o StrDebug(t.lexeme) \o ", line: " \o ToString(t.line) \o " }"

RECURSIVE AstPrint(_)
\* ast.rs AstPrinter::visit_expresssion
AstPrint(e) ==
  IF e.kind = "Binary"
  THEN "(Binary " \o TokenDebug(e.operator) \o " " \o AstPrint(e.l_expr) \o " "
       \o AstPrint(e.r_expr) \o ")"
  ELSE IF e.kind = "Grouping" THEN "(Grouping " \o AstPrint(e.expr) \o ")"
  ELSE IF e.kind = "Literal" THEN "(Literal " \o TokenDebug(e.token) \o ")"
  ELSE "(Unary " \o TokenDebug(e.operator) \o " " \o AstPrint(e.r_expr) \o ")"

(***************************************************************************)
(* Parser.  The recursive descent runs on an explicit stack: a frame is    *)
(* one active call of equality, comparison, term, factor, unary or         *)
(* primary (parse and expression only forward to equality), with the       *)
(* locals expr and the operator token t, and state, the call it waits for. *)
(***************************************************************************)
\* Parser::new
NewParser(tokens) == [tokens |-> tokens, current |-> 0]

\* Parser::peek
ParserPeek(p) ==
  IF p.current < Len(p.tokens) THEN Some(p.tokens[p.current + 1]) ELSE None

\* Parser::previous (with current = 0 the index wraps and get gives None)
ParserPrevious(p) ==
  IF 1 <= p.current /\ p.current - 1 < Len(p.tokens) THEN Some(p.tokens[p.current]) ELSE None

\* Parser::is_at_end
ParserIsAtEnd(p) == ParserPeek(p).tag = "Some" /\ ParserPeek(p).val.token_type.tag = "Eof"

\* advance without the is_at_end check
AdvanceCursor_NoEndCheck(p) == p.current + 1

\* Parser::advance, the cursor it leaves
AdvanceCursor(p) == IF ~ParserIsAtEnd(p) THEN p.current + 1 ELSE p.current

\* Parser::advance: the parser it leaves and the token it returns
ParserAdvance(p) ==
  LET p1 == [p EXCEPT !.current = AdvanceCursor(p)]
  IN [p |-> p1, t |-> ParserPrevious(p1)]

BinaryLevels == {"equality", "comparison", "term", "factor"}

\* the ladder with the operators of term and factor exchanged
LevelOps_TermFactorSwapped(fn) ==
  IF fn = "equality" THEN {"BangEqual", "EqualEqual"}
  ELSE IF fn = "comparison" THEN {"GreaterEqual", "Greater", "LessEqual", "Less"}
  ELSE IF fn = "term" THEN {"Slash", "Star"}
  ELSE {"Plus", "Minus"}

\* the operator set each level of the ladder folds over
LevelOps(fn) ==
  IF fn = "equality" THEN {"BangEqual", "EqualEqual"}
  ELSE IF fn = "comparison" THEN {"GreaterEqual", "Greater", "LessEqual", "Less"}
  ELSE IF fn = "term" THEN {"Plus", "Minus"}
  ELSE {"Slash", "Star"}

\* the method each level calls for its operands
NextLevel(fn) ==
  IF fn = "equality" THEN "comparison"
  ELSE IF fn = "comparison" THEN "term"
  ELSE IF fn = "term" THEN "factor"
  ELSE "unary"

\* the fold step with the operands exchanged
FoldBinary_Swapped(expr, t, right) == Binary(right, t, expr)

\* the fold step of a level: expr = Binary { l_expr: expr, operator: t, r_expr: right }
FoldBinary(expr, t, right) == Binary(expr, t, right)

\* what unary builds: Unary { operator: t, r_expr: right }
MakeUnary(t, right) == Unary(t, right)

PrimaryLiterals == {"False", "True", "Nil", "Number", "StringLiteral"}

NoExpr == [kind |-> "None"]
NoToken == Token(TT("None"), <<>>, 0)
Frame(fn, state, expr, t) == [fn |-> fn, state |-> state, expr |-> expr, t |-> t]
Call(fn) == Frame(fn, "enter", NoExpr, NoToken)

\* <ParserError as Display>::fmt
ParserErrorDisplay(message, line, lexeme) ==
  "[line " \o ToString(line) \o "] Error " \o Str(lexeme) \o ": " \o message \o "\n"

(***************************************************************************)
(* The parsing methods, one action for each stretch of a method between    *)
(* two calls.                                                              *)
(***************************************************************************)
Top == frames[Len(frames)]
Rest == SubSeq(frames, 1, Len(frames) - 1)

\* the running method returns x to its caller; the outermost one ends parse
Return(x) ==
  /\ frames' = Rest
  /\ ret' = x
  /\ pc' = IF Len(frames) = 1 THEN "parsed" ELSE "parse"

\* the running method calls fn and waits for it in `waiting`
CallFrom(waiting, fn) ==
  /\ frames' = Rest \o <<waiting, Call(fn)>>
  /\ ret' = None
  /\ pc' = "parse"

\* the head of the while-let loop of a level, expr being what is folded so far
LevelLoop(expr) ==
  LET pk == ParserPeek(parser)
      a == ParserAdvance(parser)
  IN IF pk.tag = "Some" /\ pk.val.token_type.tag \in LevelOps(Top.fn)
     THEN /\ parser' = a.p
          /\ IF a.t.tag = "Some"
             THEN CallFrom(Frame(Top.fn, "right", expr, a.t.val), NextLevel(Top.fn))
             ELSE Return(Ok(expr))
     ELSE /\ parser' = parser
          /\ Return(Ok(expr))

\* equality / comparison / term / factor: let mut expr = self.<next level>()?
ParseLevelEnter ==
  /\ pc = "parse" /\ Top.fn \in BinaryLevels /\ Top.state = "enter"
  /\ CallFrom([Top EXCEPT !.state = "left"], NextLevel(Top.fn))
  /\ UNCHANGED <<parser, scanner, scanned, value, stdout, stderr, nread, ncalls, mode, result>>

\* equality / comparison / term / factor, after an operand came back
ParseLevelResume ==
  /\ pc = "parse" /\ Top.fn \in BinaryLevels /\ Top.state \in {"left", "right"}
  /\ IF ret.tag = "Err"
     THEN Return(ret) /\ parser' = parser
     ELSE LevelLoop(IF Top.state = "left" THEN ret.val
                    ELSE FoldBinary(Top.expr, Top.t, ret.val))
  /\ UNCHANGED <<scanner, scanned, value, stdout, stderr, nread, ncalls, mode, result>>

\* unary, up to its call of unary or primary
ParseUnaryEnter ==
  /\ pc = "parse" /\ Top.fn = "unary" /\ Top.state = "enter"
  /\ LET pk == ParserPeek(parser)
         a == ParserAdvance(parser)
     IN IF pk.tag = "Some" /\ pk.val.token_type.tag \in {"Bang", "Minus"}
           /\ a.t.tag = "Some"
        THEN /\ parser' = a.p
             /\ CallFrom(Frame("unary", "operand", NoExpr, a.t.val), "unary")
        ELSE /\ parser' = (IF pk.tag = "Some" /\ pk.val.token_type.tag \in {"Bang", "Minus"}
                           THEN a.p ELSE parser)
             /\ CallFrom(Frame("unary", "primary", NoExpr, NoToken), "primary")
  /\ UNCHANGED <<scanner, scanned, value, stdout, stderr, nread, ncalls, mode, result>>

\* unary, after its operand (or primary) came back
ParseUnaryResume ==
  /\ pc = "parse" /\ Top.fn = "unary" /\ Top.state \in {"operand", "primary"}
  /\ IF ret.tag = "Ok" /\ Top.state = "operand"
     THEN Return(Ok(MakeUnary(Top.t, ret.val)))
     ELSE Return(ret)
  /\ UNCHANGED <<parser, scanner, scanned, value, stdout, stderr, nread, ncalls, mode, result>>

\* primary, up to its return or its call of expression
ParsePrimaryEnter ==
  /\ pc = "parse" /\ Top.fn = "primary" /\ Top.state = "enter"
  /\ LET pk == ParserPeek(parser)
         a == ParserAdvance(parser)
     IN IF pk.tag = "None"
        THEN parser' = parser /\ Return(Err("expected expression"))
        ELSE IF pk.val.token_type.tag \in PrimaryLiterals
        THEN parser' = a.p /\ Return(Ok(Literal(pk.val)))
        ELSE IF pk.val.token_type.tag = "LeftParen"
        THEN parser' = a.p
             /\ CallFrom(Frame("primary", "group", NoExpr, NoToken), "equality")
        ELSE parser' = parser
             /\ Return(Err(ParserErrorDisplay(
                  "unrecognized primary: " \o TokenDebug(pk.val), pk.val.line, pk.val.lexeme)))
  /\ UNCHANGED <<scanner, scanned, value, stdout, stderr, nread, ncalls, mode, result>>

\* primary, after the expression inside the parentheses came back
ParsePrimaryResume ==
  /\ pc = "parse" /\ Top.fn = "primary" /\ Top.state = "group"
  /\ LET pk == ParserPeek(parser)
         a == ParserAdvance(parser)
     IN IF ret.tag = "Err"
        THEN parser' = parser /\ Return(ret)
        ELSE IF pk.tag = "None"
        THEN parser' = parser /\ Return(Err("expect ')' after expression"))
        ELSE IF pk.val.token_type.tag = "RightParen"
        THEN parser' = a.p /\ Return(Ok(Grouping(ret.val)))
        ELSE parser' = parser
             /\ Return(Err(ParserErrorDisplay(
                  "expect ')' after expression", pk.val.line, pk.val.lexeme)))
  /\ UNCHANGED <<scanner, scanned, value, stdout, stderr, nread, ncalls, mode, result>>

(***************************************************************************)
(* Interpreter (interpreter.rs).                                           *)
(***************************************************************************)
Number(n) == [type |-> "Number", n |-> n]
ReturnString(chars) == [type |-> "ReturnString", s |-> chars]
Boolean(b) == [type |-> "Boolean", b |-> b]
Nil == [type |-> "Nil"]

\* <Types as Display>::fmt
TypesDisplay(t) ==
  IF t.type = "Number" THEN F64Display(t.n)
  ELSE IF t.type = "Boolean" THEN (IF t.b THEN "true" ELSE "false")
  ELSE IF t.type = "Nil" THEN "nil"
  ELSE Str(t.s)

\* visit_expression, the Literal arm
EvalLiteral(tt) ==
  IF tt.tag = "Number" THEN Ok(Number(tt.number))
  ELSE IF tt.tag = "StringLiteral" THEN Ok(ReturnString(tt.literal))
  ELSE IF tt.tag = "True" THEN Ok(Boolean(TRUE))
  ELSE IF tt.tag = "False" THEN Ok(Boolean(FALSE))
  ELSE IF tt.tag = "Nil" THEN Ok(Nil)
  ELSE Err("Unrecognized literal")

\* visit_expression, the match of the Unary arm
EvalUnary(right, op) ==
  IF right.type = "Number" /\ op = "Minus" THEN Ok(Number(F64Neg(right.n)))
  ELSE IF op = "Bang" /\ (right.type = "Nil" \/ (right.type = "Boolean" /\ ~right.b))
  THEN Ok(Boolean(TRUE))
  ELSE IF op = "Bang" THEN Ok(Boolean(FALSE))
  ELSE Err("Unrecognized unary")

\* the Number x Number arm with + and - exchanged
EvalNumbers_PlusMinusSwapped(a, b, op) ==
  IF op = "Plus" THEN Ok(Number(F64Sub(a, b)))
  ELSE IF op = "Minus" THEN Ok(Number(F64Add(a, b)))
  ELSE IF op = "Star" THEN Ok(Number(F64Mul(a, b)))
  ELSE IF op = "Slash" THEN Ok(Number(F64Div(a, b)))
  ELSE Err("Unrecognized binary operation to two numbers")

\* visit_expression, the Number x Number arm of the Binary match
EvalNumbers(a, b, op) ==
  IF op = "Plus" THEN Ok(Number(F64Add(a, b)))
  ELSE IF op = "Minus" THEN Ok(Number(F64Sub(a, b)))
  ELSE IF op = "Star" THEN Ok(Number(F64Mul(a, b)))
  ELSE IF op = "Slash" THEN Ok(Number(F64Div(a, b)))
  ELSE IF op = "Greater" THEN Ok(Boolean(F64Gt(a, b)))
  ELSE IF op = "GreaterEqual" THEN Ok(Boolean(F64Ge(a, b)))
  ELSE IF op = "Less" THEN Ok(Boolean(F64Lt(a, b)))
  ELSE IF op = "LessEqual" THEN Ok(Boolean(F64Le(a, b)))
  ELSE IF op = "EqualEqual" THEN Ok(Boolean(F64Eq(a, b)))
  ELSE IF op = "BangEqual" THEN Ok(Boolean(F64Ne(a, b)))
  ELSE Err("Unrecognized binary operation to two numbers")

\* visit_expression, the match of the Binary arm
EvalBinary(left, right, op) ==
  IF left.type = "Number" /\ right.type = "Number" THEN EvalNumbers(left.n, right.n, op)
  ELSE IF left.type = "ReturnString" /\ right.type = "ReturnString" /\ op = "Plus"
  THEN Ok(ReturnString(left.s \o right.s))
  ELSE IF left.type = "Nil" /\ right.type = "Nil" /\ op = "Equal" THEN Ok(Boolean(TRUE))
  ELSE IF left.type = "Nil" /\ right.type = "Nil" /\ op = "BangEqual"
  THEN Ok(Boolean(FALSE))
  ELSE IF left.type = "Boolean" /\ right.type = "Boolean" /\ op = "EqualEqual"
  THEN Ok(Boolean(left.b = right.b))
  ELSE IF left.type = "Boolean" /\ right.type = "Boolean" /\ op = "BangEqual"
  THEN Ok(Boolean(left.b # right.b))
  ELSE Err("Unrecognized binary")

RECURSIVE visit_expression(_)
\* <Interpreter as Visitor>::visit_expression
visit_expression(e) ==
  IF e.kind = "Literal" THEN EvalLiteral(e.token.token_type)
  ELSE IF e.kind = "Grouping" THEN visit_expression(e.expr)
  ELSE IF e.kind = "Unary"
  THEN LET right == visit_expression(e.r_expr)
       IN IF right.tag = "Err" THEN right
          ELSE EvalUnary(right.val, e.operator.token_type.tag)
  ELSE LET left == visit_expression(e.l_expr)
           right == visit_expression(e.r_expr)
       IN IF left.tag = "Err" THEN left
          ELSE IF right.tag = "Err" THEN right
          ELSE EvalBinary(left.val, right.val, e.operator.token_type.tag)

(***************************************************************************)
(* The driver (main.rs) and the calls made on Scanner, Parser and          *)
(* Interpreter.                                                            *)
(***************************************************************************)
\* the Scanner's own fields, and the record its methods work on
Fields(m) ==
  [source |-> m.source, tokens |-> m.tokens, start |-> m.start, current |-> m.current,
   line |-> m.line, has_error |-> m.has_error]
Machine(s) ==
  [source |-> s.source, tokens |-> s.tokens, start |-> s.start, current |-> s.current,
   line |-> s.line, has_error |-> s.has_error, panic |-> FALSE, report |-> <<>>]

Unit == "()"

\* run(source), its first line: Scanner::new, then scan_tokens is entered
StartRun(source) ==
  /\ scanner' = Fields(NewScanner(source))
  /\ ncalls' = 1
  /\ scanned' = None
  /\ parser' = NewParser(<<>>)
  /\ frames' = <<>>
  /\ ret' = None
  /\ value' = None
  /\ result' = None
  /\ pc' = "scan"

\* run returns r to run_prompt (which reports an error and loops), to run_file and
\* main (which end the process), or to another caller
RunReturns(r) ==
  /\ result' = r
  /\ IF mode = "prompt"
     THEN /\ pc' = "prompt"
          /\ stderr' = IF r.tag = "Err" THEN Append(stderr, r.message) ELSE stderr
     ELSE IF mode = "file"
     THEN /\ pc' = "exited"
          /\ stderr' = IF r.tag = "Err"
                       THEN Append(stderr, "Error: " \o r.message \o "\n") ELSE stderr
     ELSE /\ pc' = "done"
          /\ stderr' = stderr

\* scan_tokens: one turn of its loop
ScanToken ==
  /\ pc = "scan" /\ ScanLoopCond(Machine(scanner))
  /\ LET m == ScanLoopBody(Machine(scanner))
     IN /\ scanner' = Fields(m)
        /\ stderr' = stderr \o m.report
        /\ pc' = IF m.panic THEN "panicked" ELSE "scan"
  /\ UNCHANGED <<scanned, parser, frames, ret, value, stdout, nread, ncalls, mode, result>>

\* scan_tokens: the loop has ended and the call returns
ScanTokensReturn ==
  /\ pc = "scan" /\ ~ScanLoopCond(Machine(scanner))
  /\ LET e == ScanTokensEnd(Machine(scanner))
     IN /\ scanner' = Fields(e.m)
        /\ scanned' = e.result
  /\ pc' = "scanned"
  /\ UNCHANGED <<parser, frames, ret, value, stdout, stderr, nread, ncalls, mode, result>>

\* scan_tokens is called once more on the same Scanner
ScanTokensCall ==
  /\ pc = "scanned" /\ ncalls < MaxCalls
  /\ ncalls' = ncalls + 1
  /\ pc' = "scan"
  /\ UNCHANGED <<scanner, scanned, parser, frames, ret, value, stdout, stderr, nread,
                 mode, result>>

\* run: let tokens = scanner.scan_tokens()?  with an Err
RunScanFailed ==
  /\ pc = "scanned" /\ scanned.tag = "Err"
  /\ RunReturns(scanned)
  /\ UNCHANGED <<scanner, scanned, parser, frames, ret, value, stdout, nread, ncalls, mode>>

\* run: Parser::new(tokens), and parse is entered
RunParse ==
  /\ pc = "scanned" /\ scanned.tag = "Ok"
  /\ parser' = NewParser(scanned.val)
  /\ frames' = <<Call("equality")>>
  /\ ret' = None
  /\ pc' = "parse"
  /\ UNCHANGED <<scanner, scanned, value, stdout, stderr, nread, ncalls, mode, result>>

\* run: let expr = parser.parse()?  with an Err
RunParseFailed ==
  /\ pc = "parsed" /\ ret.tag = "Err"
  /\ RunReturns(ret)
  /\ UNCHANGED <<scanner, scanned, parser, frames, ret, value, stdout, nread, ncalls, mode>>

\* run: println!("{}", AstPrinter.print(&expr)); Ok(())
RunPrintAst ==
  /\ pc = "parsed" /\ ret.tag = "Ok"
  /\ stdout' = Append(stdout, AstPrint(ret.val) \o "\n")
  /\ RunReturns(Ok(Unit))
  /\ UNCHANGED <<scanner, scanned, parser, frames, ret, value, nread, ncalls, mode>>

\* Interpreter::interpret on the parsed expression
Interpret ==
  /\ pc = "parsed" /\ ret.tag = "Ok"
  /\ LET t == visit_expression(ret.val)
     IN /\ value' = t
        /\ stdout' = IF t.tag = "Ok" THEN Append(stdout, TypesDisplay(t.val) \o "\n")
                     ELSE stdout
        /\ result' = IF t.tag = "Ok" THEN Ok(Unit) ELSE t
  /\ pc' = "done"
  /\ UNCHANGED <<scanner, scanned, parser, frames, ret, stderr, nread, ncalls, mode>>

(***************************************************************************)
(* main and run_prompt.                                                    *)
(***************************************************************************)
\* main with more than one argument: the usage line and exit status 64
MainUsage ==
  /\ pc = "main"
  /\ stdout' = Append(stdout, "Usage: jlox [script]\n")
  /\ result' = [tag |-> "Exit", code |-> 64]
  /\ pc' = "exited"
  /\ UNCHANGED <<scanner, scanned, parser, frames, ret, value, stderr, nread, ncalls, mode>>

\* main with no argument: run_prompt
MainPrompt ==
  /\ pc = "main"
  /\ mode' = "prompt"
  /\ pc' = "prompt"
  /\ UNCHANGED <<scanner, scanned, parser, frames, ret, value, stdout, stderr, nread,
                 ncalls, result>>

\* run_prompt: print!("> "); stdout.flush()
Prompt ==
  /\ pc = "prompt" /\ mode = "prompt" /\ nread < MaxLines
  /\ stdout' = Append(stdout, "> ")
  /\ pc' = "read_line"
  /\ UNCHANGED <<scanner, scanned, parser, frames, ret, value, stderr, nread, ncalls,
                 mode, result>>

(***************************************************************************)
(* Source texts.                                                           *)
(***************************************************************************)
RECURSIVE JoinWords(_)
\* words separated by one space
JoinWords(ws) ==
  IF ws = <<>> THEN <<>>
  ELSE IF Len(ws) = 1 THEN ws[1]
  ELSE ws[1] \o <<" ">> \o JoinWords(Tail(ws))

W_nil == <<"n", "i", "l">>
W_true == <<"t", "r", "u", "e">>
W_false == <<"f", "a", "l", "s", "e">>
W_str == <<Quote, "a", Quote>>
W_empty == <<Quote, Quote>>

BinaryOpTags ==
  {"BangEqual", "EqualEqual", "Greater", "GreaterEqual", "Less", "LessEqual",
   "Plus", "Minus", "Star", "Slash"}

\* how each operator is written
OpLexeme(tag) ==
  IF tag = "BangEqual" THEN <<"!", "=">> ELSE IF tag = "EqualEqual" THEN <<"=", "=">>
  ELSE IF tag = "Greater" THEN <<">">> ELSE IF tag = "GreaterEqual" THEN <<">", "=">>
  ELSE IF tag = "Less" THEN <<"<">> ELSE IF tag = "LessEqual" THEN <<"<", "=">>
  ELSE IF tag = "Plus" THEN <<"+">> ELSE IF tag = "Minus" THEN <<"-">>
  ELSE IF tag = "Star" THEN <<"*">> ELSE IF tag = "Slash" THEN <<"/">>
  ELSE IF tag = "Equal" THEN <<"=">> ELSE <<"!">>

\* the sources the specification quotes
ExampleSources ==
  { JoinWords(<<<<"2">>, <<"+">>, <<"3">>, <<"*">>, <<"4">>>>),
    <<"(", "2", " ", "+", " ", "3", ")", " ", "*", " ", "4">>,
    JoinWords(<<<<"1", "0">>, <<"-">>, <<"3">>, <<"-">>, <<"2">>>>),
    <<"-", "-", "5">>,
    <<"!", "!">> \o W_true,
    JoinWords(<<<<"1">>, <<"/">>, <<"0">>>>),
    JoinWords(<<<<"6">>, <<"/">>, <<"2">>>>),
    JoinWords(<<<<Quote, "f", "o", "o", Quote>>, <<"+">>, <<Quote, "b", "a", "r", Quote>>>>),
    <<"(", "1", " ", "+", " ", "2">>,
    <<Quote, "a", "b", "c">>,
    JoinWords(<<<<"1">>, <<"2">>>>),
    JoinWords(<<<<"1">>, <<")">>>>),
    JoinWords(<<W_nil, <<"=">>, W_nil>>),
    <<"1", ".", "5", " ", "*", " ", "(", "(", "2", ")", ")">> }

\* the operands of the generated chains, by position
Profiles ==
  { <<<<"8">>, <<"4">>, <<"2">>, <<"1">>, <<"2">>>>,
    <<W_nil, <<"2">>, W_str, W_true, <<"1">>>> }

\* a op1 b op2 c ...: the operands of profile p around the operators ops
ChainWords(p, ops) ==
  [i \in 1..(2 * Len(ops) + 1) |->
     IF i % 2 = 1 THEN p[(i + 1) \div 2] ELSE OpLexeme(ops[i \div 2])]

ChainSources ==
  { JoinWords(ChainWords(p, ops)) :
      p \in Profiles, ops \in UNION {[1..n -> BinaryOpTags] : n \in 1..MaxChain} }

LiteralWords == {<<"0">>, <<"2">>, W_str, W_empty, W_nil, W_true, W_false}

PairSources ==
  { JoinWords(<<x, OpLexeme(op), y>>) :
      x \in LiteralWords, y \in LiteralWords, op \in BinaryOpTags }

\* a Binary inside a Unary, a Grouping and another Binary
NestedSources ==
  { <<"-", "(">> \o JoinWords(<<x, OpLexeme(op), y>>) \o <<")">> :
      x \in {<<"2">>, W_nil}, y \in {<<"2">>, W_str}, op \in BinaryOpTags }
  \cup
  { <<"1", " ", "+", " ", "(">> \o JoinWords(<<x, OpLexeme(op), y>>) \o <<")">> :
      x \in {<<"2">>, W_true}, y \in {<<"2">>, W_nil}, op \in BinaryOpTags }

RECURSIVE Flatten(_)
Flatten(ws) == IF ws = <<>> THEN <<>> ELSE Head(ws) \o Flatten(Tail(ws))

UnarySources ==
  { Flatten(pre) \o x :
      x \in LiteralWords,
      pre \in UNION {[1..n -> {<<"!">>, <<"-">>}] : n \in 1..MaxUnary} }

\* what the evaluating pipeline is given
EvalSources ==
  ExampleSources \cup ChainSources \cup PairSources \cup NestedSources \cup UnarySources

\* every text of at most MaxSrcLen characters over these characters
ScanAlphabet ==
  {"1", ".", "+", "=", "!", "/", Quote, Newline, " ", "#", "o", "r", EAcute}
ScanSources == UNION {[1..n -> ScanAlphabet] : n \in 0..MaxSrcLen}

\* the lines typed at the prompt (read_line keeps the newline; at the end of the
\* input it gives the empty line), and the files
ReplLines ==
  { <<>>,
    <<"1", Newline>>,
    JoinWords(<<<<"2">>, <<"+">>, <<"3">>, <<"*">>, <<"4">>>>) \o <<Newline>>,
    <<"-", "(", "1", ")", " ", "=", "=", " ", "!">> \o W_nil \o <<Newline>>,
    <<"(", "1", Newline>>,
    <<"#", Newline>>,
    <<Quote, "a", Newline>>,
    <<Quote, EAcute, Quote, Newline>>,
    <<"/", "/", EAcute, Newline>>,
    <<"+", Newline>> }
FileSources == ReplLines \cup {<<"(", "2", ")", Newline, "/", "/", "c">>}

\* run_prompt: read_line, then run(&line) is entered
ReadLine ==
  /\ pc = "read_line"
  /\ \E l \in ReplLines : StartRun(l)
  /\ nread' = nread + 1
  /\ UNCHANGED <<stdout, stderr, mode>>

\* main with one argument: run_file reads the file and run is entered
MainFile ==
  /\ pc = "main"
  /\ mode' = "file"
  /\ \E s \in FileSources : StartRun(s)
  /\ nread' = 1
  /\ UNCHANGED <<stdout, stderr>>

(***************************************************************************)
(* Hand-built expressions, as the test of ast.rs builds one.               *)
(***************************************************************************)
LiteralTokens ==
  { Token(NumberTT(F64Int(1)), <<"1">>, 1), Token(NumberTT(F64Int(0)), <<"0">>, 1),
    Token(StringTT(<<"a">>), W_str, 1), Token(TT("Nil"), W_nil, 1),
    Token(TT("True"), W_true, 1), Token(TT("False"), W_false, 1) }
OperatorTokens ==
  { Token(TT(op), OpLexeme(op), 1) : op \in BinaryOpTags \cup {"Equal", "Bang"} }

LeafBinaries ==
  { Binary(Literal(x), op, Literal(y)) :
      x \in LiteralTokens, y \in LiteralTokens, op \in OperatorTokens }

One == Literal(Token(NumberTT(F64Int(1)), <<"1">>, 1))
PlusToken == Token(TT("Plus"), <<"+">>, 1)

\* the trees that put one more node around a tree of S
Wrapped(S) ==
  {Grouping(e) : e \in S} \cup {Unary(Token(TT("Bang"), <<"!">>, 1), e) : e \in S}
  \cup {Binary(e, PlusToken, One) : e \in S} \cup {Binary(One, PlusToken, e) : e \in S}

RECURSIVE WrappedUpTo(_, _)
WrappedUpTo(S, k) == IF k = 0 THEN S ELSE S \cup WrappedUpTo(Wrapped(S), k - 1)

Trees == WrappedUpTo(LeafBinaries, MaxWrap)

(***************************************************************************)
(* Specifications.                                                         *)
(***************************************************************************)
NoScanner == Fields(NewScanner(<<>>))

InitObjects ==
  /\ scanned = None
  /\ parser = NewParser(<<>>)
  /\ frames = <<>>
  /\ ret = None
  /\ value = None
  /\ stdout = <<>>
  /\ stderr = <<>>
  /\ result = None

\* the process starts
Init ==
  /\ pc = "main" /\ mode = "main"
  /\ scanner = NoScanner /\ ncalls = 0 /\ nread = 0
  /\ InitObjects

Next ==
  \/ MainUsage \/ MainPrompt \/ MainFile
  \/ Prompt \/ ReadLine
  \/ ScanToken \/ ScanTokensReturn
  \/ RunScanFailed \/ RunParse
  \/ ParseLevelEnter \/ ParseLevelResume
  \/ ParseUnaryEnter \/ ParseUnaryResume
  \/ ParsePrimaryEnter \/ ParsePrimaryResume
  \/ RunParseFailed \/ RunPrintAst

\* main.rs as it is
Spec == Init /\ [][Next]_vars

\* a Scanner made for one source text, scan_tokens called on it up to MaxCalls times
InitScanner ==
  /\ pc = "scan" /\ mode = "call"
  /\ \E s \in ScanSources : scanner = Fields(NewScanner(s))
  /\ ncalls = 1 /\ nread = 1
  /\ InitObjects

NextScanner == ScanToken \/ ScanTokensReturn \/ ScanTokensCall

SpecScanner == InitScanner /\ [][NextScanner]_vars

\* the pipeline with the Interpreter as the consumer of the parsed expression
InitEval ==
  /\ pc = "scan" /\ mode = "call"
  /\ \E s \in EvalSources : scanner = Fields(NewScanner(s))
  /\ ncalls = 1 /\ nread = 1
  /\ InitObjects

NextEval ==
  \/ ScanToken \/ ScanTokensReturn
  \/ RunScanFailed \/ RunParse
  \/ ParseLevelEnter \/ ParseLevelResume
  \/ ParseUnaryEnter \/ ParseUnaryResume
  \/ ParsePrimaryEnter \/ ParsePrimaryResume
  \/ RunParseFailed \/ Interpret

SpecEval == InitEval /\ [][NextEval]_vars

\* Interpreter::interpret on a hand-built expression
InitVisit ==
  /\ pc = "parsed" /\ mode = "call"
  /\ scanner = NoScanner /\ ncalls = 0 /\ nread = 0
  /\ scanned = None /\ parser = NewParser(<<>>) /\ frames = <<>>
  /\ \E e \in Trees : ret = Ok(e)
  /\ value = None /\ stdout = <<>> /\ stderr = <<>> /\ result = None

NextVisit == Interpret

SpecVisit == InitVisit /\ [][NextVisit]_vars

(***************************************************************************)
(* Properties.                                                             *)
(***************************************************************************)
Source == scanner.source
Evaluated == pc = "done" /\ value.tag # "None"
Src2Plus3Times4 == JoinWords(<<<<"2">>, <<"+">>, <<"3">>, <<"*">>, <<"4">>>>)
SrcGrouped == <<"(", "2", " ", "+", " ", "3", ")", " ", "*", " ", "4">>
Src10Minus3Minus2 == JoinWords(<<<<"1", "0">>, <<"-">>, <<"3">>, <<"-">>, <<"2">>>>)
SrcMinusMinus5 == <<"-", "-", "5">>
NumberValue(i) == Ok(Number(F64Int(i)))

\* does expression e evaluate to Nil
EvaluatesToNil(e) == visit_expression(e).tag = "Ok" /\ visit_expression(e).val.type = "Nil"

\* C1: a Binary node whose operands both evaluate to Nil evaluates to Boolean(true)
\* under == and to Boolean(false) under !=, and to no runtime error.
C1_NilEquality ==
  (Evaluated /\ ret.val.kind = "Binary"
     /\ EvaluatesToNil(ret.val.l_expr) /\ EvaluatesToNil(ret.val.r_expr))
  => /\ ret.val.operator.token_type.tag = "EqualEqual" => value = Ok(Boolean(TRUE))
     /\ ret.val.operator.token_type.tag = "BangEqual" => value = Ok(Boolean(FALSE))

\* run has returned after a successful scan and parse
RanParsed == pc \in {"prompt", "exited"} /\ ret.tag = "Ok" /\ result.tag # "None"

\* C2: when a source unit scans and parses, run evaluates the expression with the
\* Interpreter and prints the value's display form; when the evaluation fails, run
\* returns that error.
C2_EvaluatedThenPrinted ==
  RanParsed
  => LET t == visit_expression(ret.val)
     IN IF t.tag = "Ok"
        THEN result = Ok(Unit) /\ stdout[Len(stdout)] = TypesDisplay(t.val) \o "\n"
        ELSE result = t

\* the level of the ladder equality < comparison < term < factor an operator is on
Level(tag) ==
  IF tag \in {"EqualEqual", "BangEqual"} THEN 1
  ELSE IF tag \in {"Greater", "GreaterEqual", "Less", "LessEqual"} THEN 2
  ELSE IF tag \in {"Plus", "Minus"} THEN 3
  ELSE IF tag \in {"Star", "Slash"} THEN 4
  ELSE 0

IsLiteralToken(t) == t.token_type.tag \in {"False", "True", "Nil", "Number", "StringLiteral"}
IsEof(t) == t.token_type.tag = "Eof"

\* parse has returned for the tokens toks
ParsedTokens(toks) == pc \in {"parsed", "done"} /\ scanned.tag = "Ok" /\ scanned.val = toks

\* the tokens are literal, operator, literal, ..., literal, Eof
IsChain(toks) ==
  /\ Len(toks) >= 4 /\ Len(toks) % 2 = 0
  /\ IsEof(toks[Len(toks)])
  /\ \A i \in 1..(Len(toks) - 1) :
       IF i % 2 = 1 THEN IsLiteralToken(toks[i]) ELSE Level(toks[i].token_type.tag) > 0

\* C3: for tokens a op1 b op2 c, parse gives Binary{a, op1, Binary{b, op2, c}} when
\* op2 is on a higher level of the ladder than op1 and Binary{Binary{a, op1, b}, op2, c}
\* when op1 is on the higher one; 2 + 3 * 4 evaluates to 14.
C3_Precedence ==
  /\ (scanned.tag = "Ok" /\ ParsedTokens(scanned.val)
        /\ IsChain(scanned.val) /\ Len(scanned.val) = 6)
     => LET t == scanned.val
            l1 == Level(t[2].token_type.tag)
            l2 == Level(t[4].token_type.tag)
        IN /\ l2 > l1 =>
                ret = Ok(Binary(Literal(t[1]), t[2], Binary(Literal(t[3]), t[4], Literal(t[5]))))
           /\ l1 > l2 =>
                ret = Ok(Binary(Binary(Literal(t[1]), t[2], Literal(t[3])), t[4], Literal(t[5])))
  /\ (Evaluated /\ Source = Src2Plus3Times4) => value = NumberValue(14)

C3_Witness ==
  /\ Evaluated /\ Source = Src2Plus3Times4
  /\ ret.val.kind = "Binary" /\ ret.val.r_expr.kind = "Binary"
  /\ value = NumberValue(14)

RECURSIVE LeftFold(_, _)
\* Binary{Binary{e1, op, e2}, op', e3} ... over the first n tokens of a chain
LeftFold(toks, n) ==
  IF n = 1 THEN Literal(toks[1])
  ELSE Binary(LeftFold(toks, n - 2), toks[n - 1], Literal(toks[n]))

RECURSIVE RightNest(_, _)
\* Unary{op, Unary{op', ... literal}} over the tokens from position i on
RightNest(toks, i) ==
  IF IsLiteralToken(toks[i]) THEN Literal(toks[i])
  ELSE Unary(toks[i], RightNest(toks, i + 1))

\* the tokens are prefix operators, one literal, Eof
IsUnaryChain(toks) ==
  /\ Len(toks) >= 3
  /\ IsEof(toks[Len(toks)]) /\ IsLiteralToken(toks[Len(toks) - 1])
  /\ \A i \in 1..(Len(toks) - 2) : toks[i].token_type.tag \in {"Bang", "Minus"}

\* C4: a chain of operators of one level folds to the left, and 10 - 3 - 2 evaluates
\* to 5; prefix operators nest to the right, and --5 is Unary{-, Unary{-, 5}} and
\* evaluates to 5.
C4_Associativity ==
  /\ (scanned.tag = "Ok" /\ ParsedTokens(scanned.val) /\ IsChain(scanned.val)
        /\ \A i, j \in 1..(Len(scanned.val) - 1) :
             (i % 2 = 0 /\ j % 2 = 0)
             => Level(scanned.val[i].token_type.tag) = Level(scanned.val[j].token_type.tag))
     => ret = Ok(LeftFold(scanned.val, Len(scanned.val) - 1))
  /\ (scanned.tag = "Ok" /\ ParsedTokens(scanned.val) /\ IsUnaryChain(scanned.val))
     => ret = Ok(RightNest(scanned.val, 1))
  /\ (Evaluated /\ Source = Src10Minus3Minus2) => value = NumberValue(5)
  /\ (Evaluated /\ Source = SrcMinusMinus5) => value = NumberValue(5)

C4_Witness ==
  /\ Evaluated /\ Source = Src10Minus3Minus2
  /\ ret.val.kind = "Binary" /\ ret.val.l_expr.kind = "Binary"
  /\ value = NumberValue(5)

\* the combinations the Binary arm is said to accept
Listed(lt, rt, op) ==
  \/ lt = "Number" /\ rt = "Number" /\ op \in BinaryOpTags
  \/ lt = "ReturnString" /\ rt = "ReturnString" /\ op = "Plus"
  \/ lt = "Nil" /\ rt = "Nil" /\ op \in {"EqualEqual", "BangEqual"}
  \/ lt = "Boolean" /\ rt = "Boolean" /\ op \in {"EqualEqual", "BangEqual"}

RECURSIVE HasUnlisted(_)
\* e holds a Binary node whose operands evaluate and are no listed combination
HasUnlisted(e) ==
  IF e.kind = "Literal" THEN FALSE
  ELSE IF e.kind = "Grouping" THEN HasUnlisted(e.expr)
  ELSE IF e.kind = "Unary" THEN HasUnlisted(e.r_expr)
  ELSE \/ HasUnlisted(e.l_expr)
       \/ HasUnlisted(e.r_expr)
       \/ LET l == visit_expression(e.l_expr)
              r == visit_expression(e.r_expr)
          IN l.tag = "Ok" /\ r.tag = "Ok"
             /\ ~Listed(l.val.type, r.val.type, e.operator.token_type.tag)

\* C5: a Binary node evaluates only for the listed combinations of operand types
\* and operator; with any other combination the evaluation of the whole tree is a
\* runtime error and gives no value.
C5_OnlyListedSucceed ==
  (Evaluated /\ HasUnlisted(ret.val)) => value.tag = "Err"

\* C6: once a lexical error has occurred has_error stays set, no token is appended
\* any more, and scan_tokens returns Err, never a token sequence.
C6_ScanAllOrNothing ==
  /\ [][scanner.has_error => scanner'.has_error]_vars
  /\ [][scanner'.has_error => scanner'.tokens = scanner.tokens]_vars
  /\ []((pc = "scanned" /\ scanner.has_error) => scanned.tag = "Err")

C6_Witness ==
  /\ pc = "scanned" /\ ncalls = 2
  /\ scanner.has_error /\ scanned.tag = "Err"
  /\ scanner.tokens # <<>>
  /\ scanner.current < SourceLen(scanner.source)

\* C7: at the prompt a line that fails to scan or parse is reported on standard
\* error and the loop goes on: the failure never ends the process.
C7_PromptLoopSurvives ==
  mode = "prompt"
  => /\ pc # "panicked"
     /\ (pc = "prompt" /\ result.tag = "Err")
        => (stderr # <<>> /\ stderr[Len(stderr)] = result.message)

\* C8 as stated: (2 + 3) * 4 evaluates to 56.
C8_GroupedIs56 == (Evaluated /\ Source = SrcGrouped) => value = NumberValue(56)

\* C8, amended: (2 + 3) * 4 evaluates to 20.
C8_GroupedIs20 == (Evaluated /\ Source = SrcGrouped) => value = NumberValue(20)

C8_Witness ==
  /\ Evaluated /\ Source = SrcGrouped
  /\ ret.val.kind = "Binary" /\ ret.val.l_expr.kind = "Grouping"
  /\ value.tag = "Ok"

RECURSIVE InSourceOrder(_, _, _)
\* the lexemes of toks lie in src one after the other, from character `from` on
InSourceOrder(toks, src, from) ==
  \/ toks = <<>>
  \/ \E p \in from..(Len(src) - Len(toks[1].lexeme)) :
       /\ SubSeq(src, p + 1, p + Len(toks[1].lexeme)) = toks[1].lexeme
       /\ InSourceOrder(Tail(toks), src, p + Len(toks[1].lexeme))

\* C9: every token sequence a scan_tokens call returns, the first call or a later
\* one, is in source order and ends with Eof, its only Eof.
C9_OneEofLast ==
  (pc = "scanned" /\ scanned.tag = "Ok")
  => LET t == scanned.val
     IN /\ t # <<>> /\ IsEof(t[Len(t)])
        /\ \A i \in 1..(Len(t) - 1) : ~IsEof(t[i])
        /\ InSourceOrder(SubSeq(t, 1, Len(t) - 1), Source, 0)

Parsing == pc \in {"parse", "parsed"}

\* C10: during parse the cursor never goes back and never passes the last token;
\* advance adds one when the current token is not Eof and nothing when it is.
C10_Cursor ==
  /\ [](Parsing => parser.current <= Len(parser.tokens) - 1)
  /\ [][pc = "parse"
        => /\ parser'.tokens = parser.tokens
           /\ \/ parser'.current = parser.current
              \/ /\ parser'.current = parser.current + 1
                 /\ ~IsEof(parser.tokens[parser.current + 1])]_vars
  /\ [](Parsing
        => \A c \in 0..(Len(parser.tokens) - 1) :
             AdvanceCursor([parser EXCEPT !.current = c])
               = IF IsEof(parser.tokens[c + 1]) THEN c ELSE c + 1)

C10_Witness ==
  /\ pc = "parsed" /\ ret.tag = "Ok"
  /\ parser.current = Len(parser.tokens) - 1
  /\ parser.current >= 5

\* C11: whenever parse returns Ok for a token sequence ending with Eof, the cursor
\* rests on the Eof token: every token before it was consumed into the expression.
C11_ParseConsumesAll ==
  (pc = "parsed" /\ scanned.tag = "Ok" /\ ret.tag = "Ok")
  => /\ IsEof(parser.tokens[Len(parser.tokens)])
     /\ parser.current = Len(parser.tokens) - 1

\* C12: for every source text, multi-byte characters included, scan_tokens ends by
\* returning Ok or Err: no character lookup fails and no lexeme slice falls outside
\* or inside a character (no panic), and the cursor stays within the characters.
C12_ScanNeverPanics ==
  /\ pc # "panicked"
  /\ scanner.current <= Len(scanner.source)
  /\ pc = "scanned" => scanned.tag \in {"Ok", "Err"}

====
